---- MODULE Spec2Model ----
(***************************************************************************)
(* s3-wire: the two link-issuing scripts,                                  *)
(*   scripts/generate-download-link.py  and  scripts/generate-upload-link.py *)
(* modelled as concurrent invocations working on one hosting bucket.       *)
(* Strings are sequences of one-character strings, so that formatting,     *)
(* str.split and str.replace are computed character by character.          *)
(***************************************************************************)
EXTENDS Integers, Sequences, FiniteSets, TLC

(* ------------------------------ bounds --------------------------------- *)
\* length of a generated short id in the model (the scripts default to 6)
IdLen == 1
\* last clock value (seconds) at which a backend call may still take time
MaxClock == 30

(* ------------------------- program constants --------------------------- *)
DOWNLOAD_DEFAULT_TTL == 21600
UPLOAD_DEFAULT_TTL == 86400
DEFAULT_MAX_SIZE == 104857600

\* the part of BASE62_CHARSET the model draws short ids from
BASE62_CHARSET == {"a", "Z"}

(* ------------------------------ strings -------------------------------- *)
PH_FILENAME == <<"{","F","I","L","E","N","A","M","E","}">>
PH_EXPIRATION_TIME == <<"{","E","X","P","I","R","A","T","I","O","N","_","T","I","M","E","}">>
PH_PRESIGNED_URL == <<"{","P","R","E","S","I","G","N","E","D","_","U","R","L","}">>
PH_MAX_FILE_SIZE == <<"{","M","A","X","_","F","I","L","E","_","S","I","Z","E","}">>
PH_ALLOWED_TYPES == <<"{","A","L","L","O","W","E","D","_","T","Y","P","E","S","}">>
PH_EXPIRY_DATE == <<"{","E","X","P","I","R","Y","_","D","A","T","E","}">>

\* HTML_TEMPLATE, cut at its three placeholders; the markup that carries no
\* placeholder (head, style sheet, headings, footer) is left out
TplBeforeFilename == <<"<","s","t","r","o","n","g",">","F","i","l","e",":","<","/","s","t","r","o","n","g",">"," ">>
TplBeforeExpiration == <<"<","/","p",">","<","s","t","r","o","n","g",">","L","i","n","k"," ","e","x","p","i","r","e","s",":","<","/","s","t","r","o","n","g",">"," ">>
TplBeforeUrl == <<"<","/","p",">","<","a"," ","h","r","e","f","=","\"">>
TplAfterUrl == <<"\""," ","d","o","w","n","l","o","a","d",">">>

HTML_TEMPLATE ==
    TplBeforeFilename \o PH_FILENAME \o TplBeforeExpiration \o PH_EXPIRATION_TIME
        \o TplBeforeUrl \o PH_PRESIGNED_URL \o TplAfterUrl

\* templates/upload-page.html: one occurrence of each placeholder that
\* render_template substitutes
UPLOAD_TEMPLATE ==
    <<"v","a","r"," ","u","r","l","=","\"">> \o PH_PRESIGNED_URL
        \o <<"\"",";","m","a","x","=">> \o PH_MAX_FILE_SIZE
        \o <<";","t","y","p","e","s","=","\"">> \o PH_ALLOWED_TYPES
        \o <<"\"",";","e","x","p","=","\"">> \o PH_EXPIRY_DATE \o <<"\"",";">>

Https == <<"h","t","t","p","s">>
Http == <<"h","t","t","p">>
Domain == <<"u","p",".","x">>
SourceBucket == <<"s","r","c">>
StorageBucket == <<"s","t","o">>
AllowedTypes == <<"*","/","*">>

\* --source-key values: an ordinary key, and a key whose last segment is
\* the text of a placeholder (S3 keys may contain braces)
KeyPlain == <<"d","o","c","s","/","a",".","p","d","f">>
KeyBraces == <<"d","o","c","s","/">> \o PH_PRESIGNED_URL
SourceKeys == {KeyPlain, KeyBraces}

\* --filename values of the upload script; <<>> is "not given"
FilenameArgs == {<<>>, <<"f">>}

(* --------------------------- pure functions ---------------------------- *)
Digit(n) == CASE n = 0 -> "0" [] n = 1 -> "1" [] n = 2 -> "2" [] n = 3 -> "3"
              [] n = 4 -> "4" [] n = 5 -> "5" [] n = 6 -> "6" [] n = 7 -> "7"
              [] n = 8 -> "8" [] n = 9 -> "9"

\* str(n) for n >= 0
RECURSIVE Str(_)
Str(n) == IF n < 10 THEN <<Digit(n)>> ELSE Str(n \div 10) \o <<Digit(n % 10)>>

\* %H, %M, %S: two digits, zero padded
TwoDigits(n) == <<Digit((n \div 10) % 10), Digit(n % 10)>>

\* %Y-%m-%d, as the number of the day since the model's epoch
StrfDate(t) == Str(t \div 86400)

\* mutant: the minute of the expiry is rounded up instead of cut off
StrftimeMinutes_RoundsUp(t) ==
    StrfDate(t + 59) \o <<" ">> \o TwoDigits(((t + 59) \div 3600) % 24) \o <<":">>
        \o TwoDigits(((t + 59) \div 60) % 60) \o <<" ","U","T","C">>

\* expiry_date.strftime('%Y-%m-%d %H:%M UTC')
StrftimeMinutes(t) ==
    StrfDate(t) \o <<" ">> \o TwoDigits((t \div 3600) % 24) \o <<":">>
        \o TwoDigits((t \div 60) % 60) \o <<" ","U","T","C">>

\* expiry_date.strftime('%Y-%m-%d %H:%M:%S UTC')
StrftimeSeconds(t) ==
    StrfDate(t) \o <<" ">> \o TwoDigits((t \div 3600) % 24) \o <<":">>
        \o TwoDigits((t \div 60) % 60) \o <<":">> \o TwoDigits(t % 60)
        \o <<" ","U","T","C">>

\* the positions at which p occurs in s
Occurrences(s, p) ==
    {k \in 1..(Len(s) - Len(p) + 1) : SubSeq(s, k, k + Len(p) - 1) = p}

Min(S) == CHOOSE x \in S : \A y \in S : x <= y
Max(S) == CHOOSE x \in S : \A y \in S : x >= y

\* p in s
Contains(s, p) == Occurrences(s, p) # {}

\* s.replace(old, new): every non-overlapping occurrence, left to right
RECURSIVE Replace(_, _, _)
Replace(s, old, new) ==
    IF Occurrences(s, old) = {} THEN s
    ELSE LET k == Min(Occurrences(s, old))
         IN  SubSeq(s, 1, k - 1) \o new
                 \o Replace(SubSeq(s, k + Len(old), Len(s)), old, new)

\* s.split('/')[-1]
LastSegment(s) ==
    LET slashes == {k \in 1..Len(s) : s[k] = "/"}
    IN  IF slashes = {} THEN s ELSE SubSeq(s, Max(slashes) + 1, Len(s))

\* the strings random.choices(BASE62_CHARSET, k=length) can return
RECURSIVE ShortIds(_)
ShortIds(length) ==
    IF length = 0 THEN {<<>>}
    ELSE {s \o <<c>> : s \in ShortIds(length - 1), c \in BASE62_CHARSET}

\* the signer percent-encodes the braces of an object key
RECURSIVE Quote(_)
Quote(s) ==
    IF s = <<>> THEN <<>>
    ELSE (CASE Head(s) = "{" -> <<"%","7","B">>
            [] Head(s) = "}" -> <<"%","7","D">>
            [] OTHER -> <<Head(s)>>) \o Quote(Tail(s))

\* s3_client.generate_presigned_url(op, Params={Bucket, Key}, ExpiresIn):
\* the URL names the object and carries the signing instant and the lifetime
GeneratePresignedUrl(bucket, key, signedAt, expiration) ==
    Https \o <<":","/","/">> \o bucket \o <<"/">> \o Quote(key)
        \o <<"?","X","-","A","m","z","-","D","a","t","e","=">> \o Str(signedAt)
        \o <<"&","X","-","A","m","z","-","E","x","p","i","r","e","s","=">>
        \o Str(expiration)

\* render_html_template of the download script: three replaces in this order
render_html_template(presigned_url, filename, expiry_date) ==
    LET expiration_str == StrftimeMinutes(expiry_date)
        r1 == Replace(HTML_TEMPLATE, PH_FILENAME, filename)
        r2 == Replace(r1, PH_EXPIRATION_TIME, expiration_str)
    IN  Replace(r2, PH_PRESIGNED_URL, presigned_url)

\* render_template of the upload script: the replacements dict is walked in
\* insertion order
render_template(template, presigned_url, max_file_size, allowed_types, expiry_date) ==
    LET r1 == Replace(template, PH_PRESIGNED_URL, presigned_url)
        r2 == Replace(r1, PH_MAX_FILE_SIZE, Str(max_file_size))
        r3 == Replace(r2, PH_ALLOWED_TYPES, allowed_types)
    IN  Replace(r3, PH_EXPIRY_DATE, StrftimeSeconds(expiry_date))

\* object_key of upload_html_to_s3
DownloadPageKey(short_id) == <<"s","/">> \o short_id \o <<"/","i","n","d","e","x",".","h","t","m","l">>
UploadPageKey(short_id) == <<"u","/">> \o short_id \o <<"/","i","n","d","e","x",".","h","t","m","l">>

\* mutant: the download link composed with the upload flow's path prefix
DownloadShortUrl_UploadPrefix(protocol, domain, short_id) ==
    protocol \o <<":","/","/">> \o domain \o <<"/","u","/">> \o short_id \o <<"/">>

\* short_url / upload_link of main
DownloadShortUrl(protocol, domain, short_id) ==
    protocol \o <<":","/","/">> \o domain \o <<"/","s","/">> \o short_id \o <<"/">>
UploadLink(protocol, domain, short_id) ==
    protocol \o <<":","/","/">> \o domain \o <<"/","u","/">> \o short_id \o <<"/">>

\* filename = args.filename or f'upload-{short_id}'; object_key = f'inbox/{filename}'
UploadFilename(filenameArg, short_id) ==
    IF filenameArg # <<>> THEN filenameArg
    ELSE <<"u","p","l","o","a","d","-">> \o short_id
UploadObjectKey(filename) == <<"i","n","b","o","x","/">> \o filename

(* ------------------------------- state --------------------------------- *)
\* the invocations of the scripts that run concurrently
Inv == {1, 2}

\* seconds a blocking backend call may take
Latency == 30

Running == -1
NoTime == -1

\* the command lines the invocations are started with
CommandLines ==
    {[flow |-> "download", source_key |-> KeyPlain, filename |-> <<>>, protocol |-> Https, ttl |-> DOWNLOAD_DEFAULT_TTL],
     [flow |-> "download", source_key |-> KeyBraces, filename |-> <<>>, protocol |-> Http, ttl |-> DOWNLOAD_DEFAULT_TTL],
     [flow |-> "upload", source_key |-> <<>>, filename |-> <<>>, protocol |-> Https, ttl |-> UPLOAD_DEFAULT_TTL],
     [flow |-> "upload", source_key |-> <<>>, filename |-> <<"f">>, protocol |-> Http, ttl |-> UPLOAD_DEFAULT_TTL]}

VARIABLES
    args,         \* args[i]: the parsed command line of invocation i
    credentials,  \* credentials[i]: does the credential chain of i hold usable credentials
    pc,           \* pc[i]: the statement of main() invocation i is at
    loc,          \* loc[i]: the local variables of main()
    out,          \* out[i]: exit status, error stream, reported link
    hist,         \* hist[i]: what invocation i has done so far
    hosting,      \* the hosting bucket: object key -> [body, writer]
    srcObjects,   \* the keys present in the source bucket
    now,          \* the clock, in seconds
    pubSeq        \* number of page writes the hosting bucket has accepted

vars == <<args, credentials, pc, loc, out, hist, hosting, srcObjects, now, pubSeq>>

Init ==
    /\ args \in [Inv -> CommandLines]
    /\ credentials \in [Inv -> BOOLEAN]
    /\ pc = [i \in Inv |-> "start"]
    /\ loc = [i \in Inv |->
                [filename |-> <<>>, expiry_date |-> NoTime, client |-> "none",
                 short_id |-> <<>>, object_key |-> <<>>, presigned_url |-> <<>>,
                 template |-> <<>>, html_content |-> <<>>]]
    /\ out = [i \in Inv |->
                [exit |-> Running, stderr |-> <<>>, uncaught |-> "none", link |-> <<>>]]
    /\ hist = [i \in Inv |->
                [trace |-> <<>>, calls |-> <<>>, head |-> "none", ids |-> {},
                 wrote |-> {}, pubOrder |-> 0, signedAt |-> NoTime,
                 failedAt |-> "none"]]
    /\ hosting = <<>>
    /\ srcObjects = {}
    /\ now = 0
    /\ pubSeq = 0

IsDownload(i) == args[i].flow = "download"
IsUpload(i) == args[i].flow = "upload"

\* the time a blocking backend call may take when it starts at instant t
Delays(t) == IF t <= MaxClock THEN {0, Latency} ELSE {0}

\* a step of main() completed: record it and move on
Done(h, step) == [h EXCEPT !.trace = Append(@, step)]

\* print(diag, file=sys.stderr); sys.exit(1)
ExitWithDiagnostic(o, diag) == [o EXCEPT !.exit = 1, !.stderr = Append(@, diag)]

\* an exception no handler catches: the interpreter prints a traceback and
\* the process ends with status 1
ExitUncaught(o, exc) == [o EXCEPT !.exit = 1, !.uncaught = exc]

(* ------------------------ download: main() ----------------------------- *)
\* filename = args.source_key.split('/')[-1]
\* expiry_date = datetime.utcnow() + timedelta(seconds=args.ttl)
DownloadStart(i) ==
    /\ IsDownload(i) /\ pc[i] = "start"
    /\ loc' = [loc EXCEPT ![i].filename = LastSegment(args[i].source_key),
                          ![i].expiry_date = now + args[i].ttl]
    /\ hist' = [hist EXCEPT ![i] = Done(@, "clock")]
    /\ pc' = [pc EXCEPT ![i] = "client"]
    /\ UNCHANGED <<args, credentials, out, hosting, srcObjects, now, pubSeq>>

\* mutant: missing credentials go unnoticed and the client is used as if it
\* could sign
ClientInit_IgnoresMissingCredentials(i, next) ==
    /\ pc[i] = "client"
    /\ loc' = [loc EXCEPT ![i].client = "ok"]
    /\ hist' = [hist EXCEPT ![i] = Done(@, "client")]
    /\ pc' = [pc EXCEPT ![i] = next]
    /\ UNCHANGED <<args, credentials, out, hosting, srcObjects, now, pubSeq>>

\* try: boto3.client('s3', ...) except NoCredentialsError / except Exception.
\* The credential chain is resolved lazily: without credentials the
\* constructor either raises NoCredentialsError or returns a client that
\* raises it on the first operation that has to be signed.
ClientInit(i, next) ==
    /\ pc[i] = "client"
    /\ \/ /\ credentials[i]
          /\ loc' = [loc EXCEPT ![i].client = "ok"]
          /\ hist' = [hist EXCEPT ![i] = Done(@, "client")]
          /\ pc' = [pc EXCEPT ![i] = next]
          /\ out' = out
       \/ /\ ~credentials[i]
          /\ loc' = [loc EXCEPT ![i].client = "nocreds"]
          /\ hist' = [hist EXCEPT ![i] = Done(@, "client")]
          /\ pc' = [pc EXCEPT ![i] = next]
          /\ out' = out
       \/ /\ ~credentials[i]
          /\ out' = [out EXCEPT ![i] = ExitWithDiagnostic(@, "no_credentials")]
          /\ hist' = [hist EXCEPT ![i].failedAt = "client"]
          /\ pc' = [pc EXCEPT ![i] = "failed"]
          /\ loc' = loc
       \/ /\ out' = [out EXCEPT ![i] = ExitWithDiagnostic(@, "client_init")]
          /\ hist' = [hist EXCEPT ![i].failedAt = "client"]
          /\ pc' = [pc EXCEPT ![i] = "failed"]
          /\ loc' = loc
    /\ UNCHANGED <<args, credentials, hosting, srcObjects, now, pubSeq>>

\* mutant: main() goes from the client straight to the short id
DownloadClientInit_SkipsValidation(i) == IsDownload(i) /\ ClientInit(i, "gen_id")

DownloadClientInit(i) == IsDownload(i) /\ ClientInit(i, "validate")

\* mutant: the answer of validate_file_exists is not acted upon, main() goes
\* on when the object is absent
ValidateFileExists_IgnoresMissing(i) ==
    /\ IsDownload(i) /\ pc[i] = "validate"
    /\ loc[i].client = "ok"
    /\ \E d \in Delays(now) : now' = now + d
    /\ hist' = [hist EXCEPT ![i] =
                  [Done(@, "verify_exists") EXCEPT
                      !.calls = Append(@, "head_object"),
                      !.head = IF args[i].source_key \in srcObjects
                               THEN "200" ELSE "404"]]
    /\ pc' = [pc EXCEPT ![i] = "gen_id"]
    /\ UNCHANGED <<args, credentials, loc, out, hosting, srcObjects, pubSeq>>

\* mutant: validate_file_exists answers False to every ClientError
ValidateFileExists_EveryFaultIsMissing(i) ==
    /\ IsDownload(i) /\ pc[i] = "validate"
    /\ loc[i].client = "ok"
    /\ \E d \in Delays(now) : now' = now + d
    /\ \/ /\ args[i].source_key \in srcObjects
          /\ hist' = [hist EXCEPT ![i] =
                        [Done(@, "verify_exists") EXCEPT
                            !.calls = Append(@, "head_object"), !.head = "200"]]
          /\ pc' = [pc EXCEPT ![i] = "gen_id"]
          /\ out' = out
       \/ /\ \E code \in {"403"} \cup (IF args[i].source_key \in srcObjects
                                       THEN {} ELSE {"404"}) :
                hist' = [hist EXCEPT ![i].calls = Append(@, "head_object"),
                                     ![i].head = code,
                                     ![i].failedAt = "verify_exists"]
          /\ out' = [out EXCEPT ![i] = ExitWithDiagnostic(@, "not_found")]
          /\ pc' = [pc EXCEPT ![i] = "failed"]
    /\ UNCHANGED <<args, credentials, loc, hosting, srcObjects, pubSeq>>

\* if not validate_file_exists(s3_client, bucket, key): print(...); sys.exit(1)
\* validate_file_exists: head_object; ClientError with code 404 -> False,
\* any other ClientError is raised again
ValidateFileExists(i) ==
    /\ IsDownload(i) /\ pc[i] = "validate"
    /\ \/ /\ loc[i].client = "nocreds"
          /\ out' = [out EXCEPT ![i] = ExitUncaught(@, "NoCredentialsError")]
          /\ hist' = [hist EXCEPT ![i].failedAt = "verify_exists"]
          /\ pc' = [pc EXCEPT ![i] = "failed"]
          /\ now' = now
       \/ /\ loc[i].client = "ok"
          /\ \E d \in Delays(now) : now' = now + d
          /\ \/ /\ args[i].source_key \in srcObjects
                /\ hist' = [hist EXCEPT ![i] =
                              [Done(@, "verify_exists") EXCEPT
                                  !.calls = Append(@, "head_object"), !.head = "200"]]
                /\ pc' = [pc EXCEPT ![i] = "gen_id"]
                /\ out' = out
             \/ /\ args[i].source_key \notin srcObjects
                /\ hist' = [hist EXCEPT ![i].calls = Append(@, "head_object"),
                                        ![i].head = "404",
                                        ![i].failedAt = "verify_exists"]
                /\ out' = [out EXCEPT ![i] = ExitWithDiagnostic(@, "not_found")]
                /\ pc' = [pc EXCEPT ![i] = "failed"]
             \/ /\ hist' = [hist EXCEPT ![i].calls = Append(@, "head_object"),
                                        ![i].head = "403",
                                        ![i].failedAt = "verify_exists"]
                /\ out' = [out EXCEPT ![i] = ExitUncaught(@, "ClientError")]
                /\ pc' = [pc EXCEPT ![i] = "failed"]
    /\ UNCHANGED <<args, credentials, loc, hosting, srcObjects, pubSeq>>

\* short_id = generate_short_id()
DownloadGenerateShortId(i) ==
    /\ IsDownload(i) /\ pc[i] = "gen_id"
    /\ \E id \in ShortIds(IdLen) :
          /\ loc' = [loc EXCEPT ![i].short_id = id]
          /\ hist' = [hist EXCEPT ![i] =
                        [Done(@, "generate_id") EXCEPT !.ids = @ \cup {id}]]
    /\ pc' = [pc EXCEPT ![i] = "sign"]
    /\ UNCHANGED <<args, credentials, out, hosting, srcObjects, now, pubSeq>>

\* create_presigned_download_url: generate_presigned_url('get_object', ...);
\* except ClientError: print(...); sys.exit(1)
CreatePresignedDownloadUrl(i) ==
    /\ IsDownload(i) /\ pc[i] = "sign"
    /\ \/ /\ loc' = [loc EXCEPT ![i].presigned_url =
                        GeneratePresignedUrl(SourceBucket, args[i].source_key,
                                             now, args[i].ttl)]
          /\ hist' = [hist EXCEPT ![i] =
                        [Done(@, "sign") EXCEPT
                            !.calls = Append(@, "generate_presigned_url"),
                            !.signedAt = now]]
          /\ pc' = [pc EXCEPT ![i] = "render"]
          /\ out' = out
       \/ /\ hist' = [hist EXCEPT ![i].calls = Append(@, "generate_presigned_url"),
                                  ![i].failedAt = "sign"]
          /\ out' = [out EXCEPT ![i] = ExitWithDiagnostic(@, "presign")]
          /\ pc' = [pc EXCEPT ![i] = "failed"]
          /\ loc' = loc
    /\ UNCHANGED <<args, credentials, hosting, srcObjects, now, pubSeq>>

\* html_content = render_html_template(presigned_url, filename, expiry_date)
RenderHtmlTemplate(i) ==
    /\ IsDownload(i) /\ pc[i] = "render"
    /\ loc' = [loc EXCEPT ![i].html_content =
                  render_html_template(loc[i].presigned_url, loc[i].filename,
                                       loc[i].expiry_date)]
    /\ hist' = [hist EXCEPT ![i] = Done(@, "render")]
    /\ pc' = [pc EXCEPT ![i] = "publish"]
    /\ UNCHANGED <<args, credentials, out, hosting, srcObjects, now, pubSeq>>

\* mutant: the page is stored and the invocation fails all the same
UploadHtmlToS3_WritesThenFails(i, object_key) ==
    /\ pc[i] = "publish"
    /\ now' = now
    /\ hosting' = (object_key :> [body |-> loc[i].html_content, writer |-> i])
                      @@ hosting
    /\ pubSeq' = pubSeq + 1
    /\ hist' = [hist EXCEPT ![i].calls = Append(@, "put_object"),
                            ![i].wrote = @ \cup {object_key},
                            ![i].pubOrder = pubSeq + 1,
                            ![i].failedAt = "publish"]
    /\ out' = [out EXCEPT ![i] = ExitWithDiagnostic(@, "publish")]
    /\ pc' = [pc EXCEPT ![i] = "failed"]
    /\ UNCHANGED <<args, credentials, loc, srcObjects>>

\* mutant: a page that is already stored under the key is kept
UploadHtmlToS3_KeepsFirst(i, object_key) ==
    /\ pc[i] = "publish"
    /\ now' = now
    /\ hosting' = hosting
                      @@ (object_key :> [body |-> loc[i].html_content, writer |-> i])
    /\ pubSeq' = pubSeq + 1
    /\ hist' = [hist EXCEPT ![i] =
                  [Done(@, "publish") EXCEPT
                      !.calls = Append(@, "put_object"),
                      !.wrote = @ \cup {object_key},
                      !.pubOrder = pubSeq + 1]]
    /\ pc' = [pc EXCEPT ![i] = "compose"]
    /\ UNCHANGED <<args, credentials, loc, out, srcObjects>>

\* upload_html_to_s3: put_object(Bucket, Key, Body, ...);
\* except ClientError: print(...); sys.exit(1)
UploadHtmlToS3(i, object_key) ==
    /\ pc[i] = "publish"
    /\ \E d \in Delays(now) : now' = now + d
    /\ \/ /\ hosting' = (object_key :> [body |-> loc[i].html_content, writer |-> i])
                            @@ hosting
          /\ pubSeq' = pubSeq + 1
          /\ hist' = [hist EXCEPT ![i] =
                        [Done(@, "publish") EXCEPT
                            !.calls = Append(@, "put_object"),
                            !.wrote = @ \cup {object_key},
                            !.pubOrder = pubSeq + 1]]
          /\ pc' = [pc EXCEPT ![i] = "compose"]
          /\ out' = out
       \/ /\ hist' = [hist EXCEPT ![i].calls = Append(@, "put_object"),
                                  ![i].failedAt = "publish"]
          /\ out' = [out EXCEPT ![i] = ExitWithDiagnostic(@, "publish")]
          /\ pc' = [pc EXCEPT ![i] = "failed"]
          /\ UNCHANGED <<hosting, pubSeq>>
    /\ UNCHANGED <<args, credentials, loc, srcObjects>>

DownloadUploadHtmlToS3(i) ==
    IsDownload(i) /\ UploadHtmlToS3(i, DownloadPageKey(loc[i].short_id))

\* short_url = f'{args.protocol}://{args.domain}/s/{short_id}/'; print the
\* result; main() returns
DownloadReport(i) ==
    /\ IsDownload(i) /\ pc[i] = "compose"
    /\ out' = [out EXCEPT ![i].link = DownloadShortUrl(args[i].protocol, Domain,
                                                       loc[i].short_id),
                          ![i].exit = 0]
    /\ hist' = [hist EXCEPT ![i] = Done(@, "compose")]
    /\ pc' = [pc EXCEPT ![i] = "done"]
    /\ UNCHANGED <<args, credentials, loc, hosting, srcObjects, now, pubSeq>>

(* ------------------------- upload: main() ------------------------------ *)
\* short_id = generate_short_id()
\* filename = args.filename or f'upload-{short_id}'
\* object_key = f'inbox/{filename}'
\* expiry_date = datetime.utcnow() + timedelta(seconds=args.ttl)
UploadStart(i) ==
    /\ IsUpload(i) /\ pc[i] = "start"
    /\ \E id \in ShortIds(IdLen) :
          /\ loc' = [loc EXCEPT
                        ![i].short_id = id,
                        ![i].filename = UploadFilename(args[i].filename, id),
                        ![i].object_key =
                            UploadObjectKey(UploadFilename(args[i].filename, id)),
                        ![i].expiry_date = now + args[i].ttl]
          /\ hist' = [hist EXCEPT ![i] =
                        [Done(Done(@, "generate_id"), "clock") EXCEPT
                            !.ids = @ \cup {id}]]
    /\ pc' = [pc EXCEPT ![i] = "client"]
    /\ UNCHANGED <<args, credentials, out, hosting, srcObjects, now, pubSeq>>

UploadClientInit(i) == IsUpload(i) /\ ClientInit(i, "sign")

\* create_presigned_url: generate_presigned_url('put_object', ...);
\* except ClientError: print(...); sys.exit(1)
CreatePresignedUrl(i) ==
    /\ IsUpload(i) /\ pc[i] = "sign"
    /\ \/ /\ loc[i].client = "nocreds"
          /\ out' = [out EXCEPT ![i] = ExitUncaught(@, "NoCredentialsError")]
          /\ hist' = [hist EXCEPT ![i].failedAt = "sign"]
          /\ pc' = [pc EXCEPT ![i] = "failed"]
          /\ loc' = loc
       \/ /\ loc[i].client = "ok"
          /\ loc' = [loc EXCEPT ![i].presigned_url =
                        GeneratePresignedUrl(StorageBucket, loc[i].object_key,
                                             now, args[i].ttl)]
          /\ hist' = [hist EXCEPT ![i] =
                        [Done(@, "sign") EXCEPT
                            !.calls = Append(@, "generate_presigned_url"),
                            !.signedAt = now]]
          /\ pc' = [pc EXCEPT ![i] = "load_template"]
          /\ out' = out
       \/ /\ loc[i].client = "ok"
          /\ hist' = [hist EXCEPT ![i].calls = Append(@, "generate_presigned_url"),
                                  ![i].failedAt = "sign"]
          /\ out' = [out EXCEPT ![i] = ExitWithDiagnostic(@, "presign")]
          /\ pc' = [pc EXCEPT ![i] = "failed"]
          /\ loc' = loc
    /\ UNCHANGED <<args, credentials, hosting, srcObjects, now, pubSeq>>

\* load_template: the file is missing, or cannot be read, or is returned
LoadTemplate(i) ==
    /\ IsUpload(i) /\ pc[i] = "load_template"
    /\ \/ /\ loc' = [loc EXCEPT ![i].template = UPLOAD_TEMPLATE]
          /\ hist' = [hist EXCEPT ![i] = Done(@, "load_template")]
          /\ pc' = [pc EXCEPT ![i] = "render"]
          /\ out' = out
       \/ /\ \E diag \in {"template_missing", "template_read"} :
                out' = [out EXCEPT ![i] = ExitWithDiagnostic(@, diag)]
          /\ hist' = [hist EXCEPT ![i].failedAt = "load_template"]
          /\ pc' = [pc EXCEPT ![i] = "failed"]
          /\ loc' = loc
    /\ UNCHANGED <<args, credentials, hosting, srcObjects, now, pubSeq>>

\* html_content = render_template(template, presigned_url, max_size,
\*                                allowed_types, expiry_date)
RenderTemplate(i) ==
    /\ IsUpload(i) /\ pc[i] = "render"
    /\ loc' = [loc EXCEPT ![i].html_content =
                  render_template(loc[i].template, loc[i].presigned_url,
                                  DEFAULT_MAX_SIZE, AllowedTypes,
                                  loc[i].expiry_date)]
    /\ hist' = [hist EXCEPT ![i] = Done(@, "render")]
    /\ pc' = [pc EXCEPT ![i] = "publish"]
    /\ UNCHANGED <<args, credentials, out, hosting, srcObjects, now, pubSeq>>

UploadUploadHtmlToS3(i) ==
    IsUpload(i) /\ UploadHtmlToS3(i, UploadPageKey(loc[i].short_id))

\* upload_link = f'{args.protocol}://{args.domain}/u/{short_id}/'; print the
\* result; main() returns
UploadReport(i) ==
    /\ IsUpload(i) /\ pc[i] = "compose"
    /\ out' = [out EXCEPT ![i].link = UploadLink(args[i].protocol, Domain,
                                                 loc[i].short_id),
                          ![i].exit = 0]
    /\ hist' = [hist EXCEPT ![i] = Done(@, "compose")]
    /\ pc' = [pc EXCEPT ![i] = "done"]
    /\ UNCHANGED <<args, credentials, loc, hosting, srcObjects, now, pubSeq>>

(* ------------------- the storage backend's other users ----------------- *)
\* somebody stores an object under a key of the source bucket
EnvPutObject(k) ==
    /\ k \notin srcObjects
    /\ srcObjects' = srcObjects \cup {k}
    /\ UNCHANGED <<args, credentials, pc, loc, out, hist, hosting, now, pubSeq>>

\* somebody deletes an object of the source bucket
EnvDeleteObject(k) ==
    /\ k \in srcObjects
    /\ srcObjects' = srcObjects \ {k}
    /\ UNCHANGED <<args, credentials, pc, loc, out, hist, hosting, now, pubSeq>>

Next ==
    \/ \E i \in Inv : DownloadStart(i)
    \/ \E i \in Inv : DownloadClientInit(i)
    \/ \E i \in Inv : ValidateFileExists(i)
    \/ \E i \in Inv : DownloadGenerateShortId(i)
    \/ \E i \in Inv : CreatePresignedDownloadUrl(i)
    \/ \E i \in Inv : RenderHtmlTemplate(i)
    \/ \E i \in Inv : DownloadUploadHtmlToS3(i)
    \/ \E i \in Inv : DownloadReport(i)
    \/ \E i \in Inv : UploadStart(i)
    \/ \E i \in Inv : UploadClientInit(i)
    \/ \E i \in Inv : CreatePresignedUrl(i)
    \/ \E i \in Inv : LoadTemplate(i)
    \/ \E i \in Inv : RenderTemplate(i)
    \/ \E i \in Inv : UploadUploadHtmlToS3(i)
    \/ \E i \in Inv : UploadReport(i)
    \/ \E k \in SourceKeys : EnvPutObject(k)
    \/ \E k \in SourceKeys : EnvDeleteObject(k)

Spec == Init /\ [][Next]_vars

TypeOK ==
    /\ pc \in [Inv -> {"start", "client", "validate", "gen_id", "sign",
                       "load_template", "render", "publish", "compose",
                       "done", "failed"}]
    /\ \A i \in Inv : out[i].exit \in {Running, 0, 1}
    /\ srcObjects \subseteq SourceKeys
    /\ now \in 0..(MaxClock + Latency)

(* ------------------------- helpers of the claims ----------------------- *)
Range(s) == {s[k] : k \in 1..Len(s)}
IsPrefix(a, b) == Len(a) <= Len(b) /\ SubSeq(b, 1, Len(a)) = a
\* position of the first x in s, 0 when there is none
Pos(s, x) == IF x \in Range(s) THEN Min({k \in 1..Len(s) : s[k] = x}) ELSE 0
FlowPrefix(i) == IF IsDownload(i) THEN "s" ELSE "u"

(* ------------------------------- C1 ------------------------------------ *)
\* C1: download flow: once the existence check has answered that the source
\* object is absent, the invocation has made no call to the signing provider,
\* has written nothing to the hosting bucket, and has ended with status 1
\* after printing the not-found diagnostic.
C1_AbsentSourceNeverSignsNorPublishes ==
    \A i \in Inv :
        (IsDownload(i) /\ hist[i].head = "404") =>
            /\ "generate_presigned_url" \notin Range(hist[i].calls)
            /\ "put_object" \notin Range(hist[i].calls)
            /\ hist[i].wrote = {}
            /\ \A k \in DOMAIN hosting : hosting[k].writer # i
            /\ out[i].exit = 1
            /\ out[i].stderr = <<"not_found">>
            /\ out[i].uncaught = "none"

C1_Witness ==
    \E i \in Inv :
        /\ IsDownload(i) /\ hist[i].head = "404" /\ out[i].exit = 1
        /\ args[i].source_key \notin srcObjects

(* ------------------------------- C2 ------------------------------------ *)
\* C2: both flows: an invocation that ended with a failure has written
\* nothing to the hosting bucket, and the invocations that have written a
\* page are exactly those that completed the publish step and are on their
\* way to, or have reached, exit status 0.
C2_FailureLeavesHostingUntouched ==
    \A i \in Inv :
        /\ out[i].exit = 1 =>
              /\ hist[i].wrote = {}
              /\ \A k \in DOMAIN hosting : hosting[k].writer # i
        /\ hist[i].wrote # {} =>
              /\ "publish" \in Range(hist[i].trace)
              /\ pc[i] \in {"compose", "done"}
              /\ out[i].exit \in {Running, 0}
        /\ pc[i] = "done" => out[i].exit = 0 /\ hist[i].wrote # {}

C2_Witness ==
    \E i \in Inv : out[i].exit = 1 /\ hist[i].failedAt = "publish"

(* ------------------------------- C3 ------------------------------------ *)
\* C3 as claimed: whenever a download page is written to the hosting bucket,
\* the source object it links to exists in the source bucket at that moment.
C3_SourceExistsWhenPublished ==
    [][\A i \in Inv :
          (IsDownload(i) /\ pc[i] = "publish" /\ pc'[i] = "compose") =>
              args[i].source_key \in srcObjects]_vars

\* C3 amended: every download page in the hosting bucket was written by an
\* invocation whose existence check had, earlier in that invocation, found
\* the source object present; the object may have been deleted since.
C3_PublishedOnlyAfterPositiveCheck ==
    \A i \in Inv :
        (IsDownload(i) /\ hist[i].wrote # {}) =>
            /\ hist[i].head = "200"
            /\ Pos(hist[i].calls, "head_object") = 1
            /\ Pos(hist[i].calls, "head_object") < Pos(hist[i].calls, "put_object")

C3_Witness ==
    \E i \in Inv :
        /\ IsDownload(i) /\ hist[i].wrote # {}
        /\ args[i].source_key \notin srcObjects

(* ------------------------------- C4 ------------------------------------ *)
\* C4: an invocation that has succeeded generated exactly one short id; the
\* page was written to `{p}/{id}/index.html` and the reported link is
\* `{protocol}://{domain}/{p}/{id}/` with that id and p = s (download) or
\* p = u (upload); an upload started without --filename had its PUT URL
\* signed for the key `inbox/upload-{id}`.
C4_OneShortIdUsedConsistently ==
    \A i \in Inv :
        pc[i] = "done" =>
            \E id \in ShortIds(IdLen) :
                /\ hist[i].ids = {id}
                /\ Len(SelectSeq(hist[i].trace, LAMBDA st : st = "generate_id")) = 1
                /\ hist[i].wrote =
                      {<<FlowPrefix(i), "/">> \o id
                          \o <<"/","i","n","d","e","x",".","h","t","m","l">>}
                /\ hosting[<<FlowPrefix(i), "/">> \o id
                          \o <<"/","i","n","d","e","x",".","h","t","m","l">>].writer \in Inv
                /\ out[i].link =
                      args[i].protocol \o <<":","/","/">> \o Domain
                          \o <<"/", FlowPrefix(i), "/">> \o id \o <<"/">>
                /\ (IsUpload(i) /\ args[i].filename = <<>>) =>
                      Contains(loc[i].presigned_url,
                               <<"/","i","n","b","o","x","/","u","p","l","o","a","d","-">>
                                   \o id \o <<"?">>)

C4_Witness ==
    /\ \E i \in Inv : pc[i] = "done" /\ IsDownload(i)
    /\ \E i \in Inv : pc[i] = "done" /\ IsUpload(i) /\ args[i].filename = <<>>

(* ------------------------------- C5 ------------------------------------ *)
\* C5: both flows: no blocking backend call (existence check, page write) is
\* made between the clock read that fixes the page's expiry and the signing
\* call that fixes the URL's expiry.
C5_NoBackendCallBetweenClockAndSigning ==
    \A i \in Inv :
        "sign" \in Range(hist[i].trace) =>
            /\ Pos(hist[i].trace, "clock") < Pos(hist[i].trace, "sign")
            /\ \A k \in 1..Len(hist[i].trace) :
                  (Pos(hist[i].trace, "clock") < k /\ k < Pos(hist[i].trace, "sign"))
                      => hist[i].trace[k] \notin {"verify_exists", "publish"}

(* ------------------------------- C6 ------------------------------------ *)
\* C6: both flows: an invocation whose credential chain holds no usable
\* credentials sends no request to the storage backend (no existence check,
\* no signing, no page write) and, once it has ended, has ended with status 1.
C6_NoCredentialsNoBackendCall ==
    \A i \in Inv :
        ~credentials[i] =>
            /\ hist[i].calls = <<>>
            /\ hist[i].wrote = {}
            /\ hist[i].head = "none"
            /\ loc[i].presigned_url = <<>>
            /\ out[i].exit \in {Running, 1}
            /\ pc[i] \notin {"render", "load_template", "publish", "compose", "done"}

C6_Witness ==
    /\ \E i \in Inv : ~credentials[i] /\ out[i].exit = 1 /\ IsDownload(i)
    /\ \E i \in Inv : ~credentials[i] /\ out[i].exit = 1 /\ IsUpload(i)

(* ------------------------------- C7 ------------------------------------ *)
MainSteps == {"generate_id", "verify_exists", "sign", "render", "publish", "compose"}
MainTrace(i) == SelectSeq(hist[i].trace, LAMBDA st : st \in MainSteps)

C8_EveryFailurePrintsDiagnostic ==
    \A i \in Inv :
        out[i].exit = 1 => out[i].stderr # <<>> /\ out[i].uncaught = "none"

(* ------------------------------- C9 ------------------------------------ *)
\* the invocations that have written a page to hosting key k
Publishers(k) == {i \in Inv : k \in hist[i].wrote}
LastPublisher(k) ==
    CHOOSE i \in Publishers(k) :
        \A j \in Publishers(k) : hist[j].pubOrder <= hist[i].pubOrder

\* C9: invocations of one flow that drew the same short id all get their
\* page written and none of them fails for it: each goes on to report its
\* link, which is the same link when protocol and domain agree, and the
\* hosting key holds the page of the invocation that published last.
C9_SameIdLastPublishWins ==
    /\ \A k \in DOMAIN hosting :
          /\ Publishers(k) # {}
          /\ hosting[k].writer = LastPublisher(k)
          /\ hosting[k].body = loc[LastPublisher(k)].html_content
    /\ \A i, j \in Inv :
          (i # j /\ args[i].flow = args[j].flow
               /\ loc[i].short_id = loc[j].short_id
               /\ "put_object" \in Range(hist[i].calls)
               /\ "put_object" \in Range(hist[j].calls)
               /\ hist[i].failedAt = "none" /\ hist[j].failedAt = "none") =>
              /\ hist[i].wrote = hist[j].wrote /\ hist[i].wrote # {}
              /\ pc[i] \in {"compose", "done"} /\ pc[j] \in {"compose", "done"}
              /\ (pc[i] = "done" /\ pc[j] = "done") =>
                    /\ out[i].exit = 0 /\ out[j].exit = 0
                    /\ args[i].protocol = args[j].protocol => out[i].link = out[j].link

C9_Witness ==
    \E i, j \in Inv :
        /\ i # j /\ args[i] = args[j] /\ loc[i].short_id = loc[j].short_id
        /\ pc[i] = "done" /\ pc[j] = "done"
        /\ hist[i].pubOrder < hist[j].pubOrder
        /\ loc[i].html_content # loc[j].html_content
        /\ \A k \in hist[i].wrote : hosting[k].body = loc[j].html_content

(* ------------------------------- C10 ----------------------------------- *)
\* the download page rendered with the three replaces applied in the order ord
RenderInOrder(ord, presigned_url, filename, expiry_date) ==
    LET value(ph) == CASE ph = PH_FILENAME -> filename
                       [] ph = PH_EXPIRATION_TIME -> StrftimeMinutes(expiry_date)
                       [] ph = PH_PRESIGNED_URL -> presigned_url
        r1 == Replace(HTML_TEMPLATE, ord[1], value(ord[1]))
        r2 == Replace(r1, ord[2], value(ord[2]))
    IN  Replace(r2, ord[3], value(ord[3]))

Orders ==
    {ord \in [1..3 -> {PH_FILENAME, PH_EXPIRATION_TIME, PH_PRESIGNED_URL}] :
        \A a, b \in 1..3 : a # b => ord[a] # ord[b]}

\* C10: a rendered download page holds no placeholder token, it is the
\* template with the filename, the expiry text and the signed URL standing
\* exactly where their placeholders stood, and it is the same page whatever
\* the order of the three substitutions.
C10_RenderRoundTrip ==
    \A i \in Inv :
        (IsDownload(i) /\ "render" \in Range(hist[i].trace)) =>
            /\ loc[i].html_content =
                  TplBeforeFilename \o loc[i].filename
                      \o TplBeforeExpiration \o StrftimeMinutes(loc[i].expiry_date)
                      \o TplBeforeUrl \o loc[i].presigned_url \o TplAfterUrl
            /\ \A ph \in {PH_FILENAME, PH_EXPIRATION_TIME, PH_PRESIGNED_URL} :
                  ~Contains(loc[i].html_content, ph)
            /\ \A ord \in Orders :
                  RenderInOrder(ord, loc[i].presigned_url, loc[i].filename,
                                loc[i].expiry_date) = loc[i].html_content

(* ------------------------------- C11 ----------------------------------- *)
\* C11: download flow existence check: the backend's not-found answer gives
\* the result false and the not-found diagnostic; any other backend fault is
\* not turned into false: it leaves validate_file_exists as an error, the
\* invocation ends with status 1 without a signing call and without a page
\* write, and the not-found diagnostic is not printed.
C11_OnlyNotFoundMeansAbsent ==
    \A i \in Inv :
        /\ (IsDownload(i) /\ hist[i].head = "404") =>
              /\ "not_found" \in Range(out[i].stderr)
              /\ out[i].uncaught = "none"
        /\ (IsDownload(i) /\ hist[i].head = "403") =>
              /\ "not_found" \notin Range(out[i].stderr)
              /\ out[i].uncaught = "ClientError"
              /\ out[i].exit = 1
              /\ pc[i] = "failed"
              /\ hist[i].calls = <<"head_object">>
              /\ loc[i].presigned_url = <<>>
              /\ hist[i].wrote = {}
        /\ "not_found" \in Range(out[i].stderr) => hist[i].head = "404"

C11_Witness ==
    \E i \in Inv :
        /\ IsDownload(i) /\ hist[i].head = "403" /\ out[i].exit = 1
        /\ args[i].source_key \in srcObjects

(* ------------------------------- C12 ----------------------------------- *)
DigitVal(c) == CHOOSE n \in 0..9 : Digit(n) = c

\* int(s) for a string of digits
RECURSIVE ParseNat(_)
ParseNat(s) ==
    IF s = <<>> THEN 0
    ELSE 10 * ParseNat(SubSeq(s, 1, Len(s) - 1)) + DigitVal(s[Len(s)])

\* the instant a page shows as its expiry: the text that follows the marker
\* is read back as day, hours, minutes and, when withSeconds, seconds
ShownExpiry(body, marker, withSeconds) ==
    LET start == Min(Occurrences(body, marker)) + Len(marker)
        text == SubSeq(body, start, Len(body))
        sp == Min({k \in 1..Len(text) : text[k] = " "})
    IN  ParseNat(SubSeq(text, 1, sp - 1)) * 86400
          + ParseNat(SubSeq(text, sp + 1, sp + 2)) * 3600
          + ParseNat(SubSeq(text, sp + 4, sp + 5)) * 60
          + (IF withSeconds THEN ParseNat(SubSeq(text, sp + 7, sp + 8)) ELSE 0)

PageShownExpiry(k) ==
    IF IsDownload(hosting[k].writer)
    THEN ShownExpiry(hosting[k].body, TplBeforeExpiration, FALSE)
    ELSE ShownExpiry(hosting[k].body, <<"\"",";","e","x","p","=","\"">>, TRUE)

\* C12: the expiry a published page shows is never later than the instant the
\* signed URL it embeds stops being valid (signing instant + ttl): the clock
\* read that fixes the page's expiry precedes the signing, and the download
\* page's minute resolution only rounds down.
C12_ShownExpiryNotAfterUrlExpiry ==
    \A k \in DOMAIN hosting :
        LET w == hosting[k].writer
        IN  /\ PageShownExpiry(k) <= hist[w].signedAt + args[w].ttl
            /\ PageShownExpiry(k) <= loc[w].expiry_date
            /\ Pos(hist[w].trace, "clock") < Pos(hist[w].trace, "sign")

C12_Witness ==
    /\ \E k \in DOMAIN hosting :
          /\ IsDownload(hosting[k].writer)
          /\ PageShownExpiry(k) < loc[hosting[k].writer].expiry_date
          /\ loc[hosting[k].writer].expiry_date
                < hist[hosting[k].writer].signedAt + args[hosting[k].writer].ttl
    /\ \E k \in DOMAIN hosting :
          /\ IsUpload(hosting[k].writer)
          /\ PageShownExpiry(k) = loc[hosting[k].writer].expiry_date

====
